---- MODULE Spec2Model ----
(***************************************************************************)
(* Model of ormar's model-metadata compilation and save preparation:       *)
(*   ormar/fields/base.py               BaseField predicates and columns   *)
(*   ormar/models/helpers/sqlalchemy.py columns, pk, table, m2m through    *)
(*   ormar/models/mixins/save_mixin.py  SavePrepareMixin                   *)
(***************************************************************************)
EXTENDS Integers, Sequences, FiniteSets, TLC

VARIABLES
    meta,        \* entity name -> its Meta (model_fields, tablename, pkname, columns, table)
    metadata,    \* the shared sqlalchemy.MetaData: the tables registered so far
    last,        \* the last definition-time call: what was called, on what, how it ended
    m2m_calls,   \* the create_and_append_m2m_fk calls so far: per model, how many returned and raised
    new_kwargs,  \* the caller's payload dict (mutated in place by save preparation)
    saved        \* the last save-preparation call: what was called, its argument, how it ended

vars == <<meta, metadata, last, m2m_calls, new_kwargs, saved>>

(***************************************************************************)
(* Bounds of the model.                                                    *)
(***************************************************************************)
MaxFields == 3

(***************************************************************************)
(* Python values.  Every value is a record [t, n, s, e]: t is the type,    *)
(* n an integer, s a string (a model's class name, a dict item's key),     *)
(* e the elements (list items, dict items, a model's pk, what a callable   *)
(* returns).                                                               *)
(***************************************************************************)
NoneV == [t |-> "none", n |-> 0, s |-> "", e |-> <<>>]

IntV(i) == [t |-> "int", n |-> i, s |-> "", e |-> <<>>]

StrV(str) == [t |-> "str", n |-> 0, s |-> str, e |-> <<>>]

ListV(items) == [t |-> "list", n |-> 0, s |-> "", e |-> items]

\* One key/value pair of a dict.
ItemV(key, value) == [t |-> "item", n |-> 0, s |-> key, e |-> <<value>>]

DictV(items) == [t |-> "dict", n |-> 0, s |-> "", e |-> items]

\* An ormar.Model instance of class cls whose primary key attribute holds pk.
ModelV(cls, pk) == [t |-> "model", n |-> 0, s |-> cls, e |-> <<pk>>]

\* A default generator: a callable that returns value when invoked.
CallableV(value) == [t |-> "callable", n |-> 0, s |-> "", e |-> <<value>>]

\* Python truthiness: bool(value).
Truthy(v) ==
    CASE v.t = "none" -> FALSE
      [] v.t = "int" -> v.n # 0
      [] v.t = "str" -> v.s # ""
      [] v.t = "list" -> Len(v.e) > 0
      [] v.t = "dict" -> Len(v.e) > 0
      [] OTHER -> TRUE

\* dict.get(key): the value of the first item under key, None when there is none.
DictGet(d, key) ==
    LET hits == SelectSeq(d.e, LAMBDA it : it.s = key)
    IN  IF Len(hits) = 0 THEN NoneV ELSE hits[1].e[1]

(***************************************************************************)
(* Field descriptors (BaseField class attributes).  An unset alias,        *)
(* related_name, to or pkname is the empty string, which the code's        *)
(* truthiness tests treat as it treats None.                               *)
(***************************************************************************)
None == ""

ModelDefinitionError == "ModelDefinitionError"

ModelPersistenceError == "ModelPersistenceError"

BaseField ==
    [name |-> "", alias |-> "", column_type |-> "String",
     primary_key |-> FALSE, autoincrement |-> FALSE, nullable |-> FALSE,
     index |-> FALSE, unique |-> FALSE, pydantic_only |-> FALSE,
     virtual |-> FALSE, kind |-> "plain", to |-> None, related_name |-> None,
     through |-> None, default |-> NoneV, server_default |-> NoneV,
     constraints |-> <<>>]

is_valid_uni_relation(field) == field.kind # "m2m" /\ ~field.virtual

get_alias(field) == IF field.alias # "" THEN field.alias ELSE field.name

has_default(field, use_server) ==
    field.default # NoneV \/ (field.server_default # NoneV /\ use_server)

\* A variant that stores the default as it is, a generator uncalled.
get_default_uncalled(field, use_server) ==
    IF has_default(field, TRUE)
    THEN IF field.default # NoneV
         THEN field.default
         ELSE (IF use_server THEN field.server_default ELSE NoneV)
    ELSE NoneV

get_default(field, use_server) ==
    IF has_default(field, TRUE)
    THEN LET default == IF field.default # NoneV
                        THEN field.default
                        ELSE (IF use_server THEN field.server_default ELSE NoneV)
         IN  IF default.t = "callable" THEN default.e[1] ELSE default
    ELSE NoneV

is_auto_primary_key(field) ==
    IF field.primary_key THEN field.autoincrement ELSE FALSE

construct_constraints(field) ==
    [i \in 1..Len(field.constraints) |->
        [name |-> field.constraints[i].name,
         ondelete |-> field.constraints[i].ondelete,
         onupdate |-> field.constraints[i].onupdate]]

get_column(field, name) ==
    [name |-> IF field.alias # "" THEN field.alias ELSE name,
     type |-> field.column_type,
     constraints |-> construct_constraints(field),
     primary_key |-> field.primary_key,
     nullable |-> field.nullable /\ ~field.primary_key,
     index |-> field.index,
     unique |-> field.unique,
     default |-> field.default,
     server_default |-> field.server_default]

(***************************************************************************)
(* Entities and their Meta.  attrs holds the names of the compiled-schema  *)
(* attributes that are set on the Meta class (what hasattr answers); an    *)
(* attribute outside attrs holds a placeholder.                            *)
(***************************************************************************)
Models == {"Author", "Book", "AuthorBook"}

\* Model.get_name(): the class name in lower case.
get_name(model) ==
    CASE model = "Author" -> "author"
      [] model = "Book" -> "book"
      [] model = "AuthorBook" -> "authorbook"
      [] OTHER -> model

NoTable == [id |-> 0, name |-> "", columns |-> <<>>, constraints |-> <<>>]

UndeclaredMeta ==
    [model_fields |-> <<>>, attrs |-> {}, tablename |-> "", pkname |-> None,
     columns |-> <<>>, table |-> NoTable, constraints |-> <<>>]

\* ormar.Integer(name="id", primary_key=True), stored under the key "id".
IntegerId ==
    [BaseField EXCEPT !.name = "id", !.alias = "id", !.column_type = "Integer",
                      !.primary_key = TRUE, !.autoincrement = TRUE,
                      !.nullable = TRUE]

\* True when the relation fields pass: among the relation fields leading to
\* one model no two share a related_name, the unset one included.
validate_related_names_in_relations(model_fields, new_model) ==
    \A i, j \in 1..Len(model_fields) :
        (/\ i < j
         /\ model_fields[i].kind # "plain"
         /\ model_fields[j].kind # "plain"
         /\ model_fields[i].to = model_fields[j].to)
        => model_fields[i].related_name # model_fields[j].related_name

\* A variant that hands back the column alias where the field name is due.
check_pk_column_validity_alias(field_name, field, pkname) ==
    IF pkname # None
    THEN [exc |-> ModelDefinitionError, value |-> None]
    ELSE IF field.pydantic_only
         THEN [exc |-> ModelDefinitionError, value |-> None]
         ELSE [exc |-> "", value |-> get_alias(field)]

\* A variant without the already-set test: a later primary key replaces the earlier.
check_pk_column_validity_last_wins(field_name, field, pkname) ==
    IF field.pydantic_only
    THEN [exc |-> ModelDefinitionError, value |-> None]
    ELSE [exc |-> "", value |-> field_name]

\* A variant without the pydantic_only test.
check_pk_column_validity_any_field(field_name, field, pkname) ==
    IF pkname # None
    THEN [exc |-> ModelDefinitionError, value |-> None]
    ELSE [exc |-> "", value |-> field_name]

check_pk_column_validity(field_name, field, pkname) ==
    IF pkname # None
    THEN [exc |-> ModelDefinitionError, value |-> None]
    ELSE IF field.pydantic_only
         THEN [exc |-> ModelDefinitionError, value |-> None]
         ELSE [exc |-> "", value |-> field_name]

\* A variant of the column test that forgets virtual fields.
is_database_field_keeps_virtual(field) ==
    ~field.pydantic_only /\ field.kind # "m2m"

\* The test of the loop: the field gets a column.
is_database_field(field) ==
    ~field.pydantic_only /\ ~field.virtual /\ field.kind # "m2m"

\* The loop over model_fields.items(), from item i on, with the pkname and the
\* columns collected so far.
RECURSIVE columns_loop(_, _, _, _)
columns_loop(model_fields, i, pkname, columns) ==
    IF i > Len(model_fields)
    THEN [exc |-> "", pkname |-> pkname, columns |-> columns]
    ELSE LET field == model_fields[i]
             checked == IF field.primary_key
                        THEN check_pk_column_validity(field.name, field, pkname)
                        ELSE [exc |-> "", value |-> pkname]
         IN  IF checked.exc # ""
             THEN [exc |-> checked.exc, pkname |-> None, columns |-> <<>>]
             ELSE columns_loop(
                      model_fields, i + 1, checked.value,
                      IF is_database_field(field)
                      THEN Append(columns, get_column(field, get_alias(field)))
                      ELSE columns)

\* The message of the logging.warning call (the quotes around id left out); the
\* string is not an f-string, so the placeholder is logged as written.
NoFieldsWarning ==
    "Table {table_name} had no fields so auto Integer primary key named id created."

\* A variant that leaves an empty model_fields as it is.
sqlalchemy_columns_from_model_fields_no_id(model_fields, new_model) ==
    LET fields == model_fields
        warnings == <<>>
        looped == columns_loop(fields, 1, None, <<>>)
    IN  IF ~validate_related_names_in_relations(fields, new_model)
        THEN [exc |-> ModelDefinitionError, pkname |-> None, columns |-> <<>>,
              model_fields |-> fields, warnings |-> warnings]
        ELSE [exc |-> looped.exc, pkname |-> looped.pkname,
              columns |-> looped.columns, model_fields |-> fields,
              warnings |-> warnings]

\* Returns the exception raised (or ""), the (pkname, columns) returned,
\* model_fields as the call leaves the dict it was given, and the warnings
\* logged.
sqlalchemy_columns_from_model_fields(model_fields, new_model) ==
    LET fields == IF Len(model_fields) = 0 THEN <<IntegerId>> ELSE model_fields
        warnings == IF Len(model_fields) = 0 THEN <<NoFieldsWarning>> ELSE <<>>
        looped == columns_loop(fields, 1, None, <<>>)
    IN  IF ~validate_related_names_in_relations(fields, new_model)
        THEN [exc |-> ModelDefinitionError, pkname |-> None, columns |-> <<>>,
              model_fields |-> fields, warnings |-> warnings]
        ELSE [exc |-> looped.exc, pkname |-> looped.pkname,
              columns |-> looped.columns, model_fields |-> fields,
              warnings |-> warnings]

\* Returns the exception raised (or "") and the Meta as the call leaves it.
populate_meta_tablename_columns_and_pk(name, Meta) ==
    LET tablename == get_name(name) \o "s"
        named == [Meta EXCEPT
                     !.tablename = IF "tablename" \in Meta.attrs
                                   THEN Meta.tablename ELSE tablename,
                     !.attrs = @ \cup {"tablename"}]
        compiled == sqlalchemy_columns_from_model_fields(Meta.model_fields, name)
        fresh == "columns" \notin named.attrs
        fielded == IF fresh
                   THEN [named EXCEPT !.model_fields = compiled.model_fields]
                   ELSE named
        pkname == IF fresh THEN compiled.pkname ELSE named.pkname
        columns == IF fresh THEN compiled.columns ELSE named.columns
        warnings == IF fresh THEN compiled.warnings ELSE <<>>
    IN  IF ~fresh /\ "pkname" \notin named.attrs
        THEN [exc |-> "AttributeError", Meta |-> named, warnings |-> warnings]
        ELSE IF fresh /\ compiled.exc # ""
        THEN [exc |-> compiled.exc, Meta |-> fielded, warnings |-> warnings]
        ELSE IF pkname = None
        THEN [exc |-> ModelDefinitionError, Meta |-> fielded,
              warnings |-> warnings]
        ELSE [exc |-> "",
              Meta |-> [fielded EXCEPT !.columns = columns, !.pkname = pkname,
                                       !.attrs = @ \cup {"columns", "pkname"}],
              warnings |-> warnings]

\* A variant without the hasattr test: a table is built on every call.
populate_meta_sqlalchemy_table_always(Meta, registry) ==
    IF "tablename" \notin Meta.attrs \/ "columns" \notin Meta.attrs
    THEN [exc |-> "AttributeError", Meta |-> Meta, registry |-> registry]
    ELSE IF \E i \in 1..Len(registry) : registry[i] = Meta.tablename
    THEN [exc |-> "InvalidRequestError", Meta |-> Meta, registry |-> registry]
    ELSE [exc |-> "",
          Meta |-> [Meta EXCEPT
                       !.table = [id |-> Len(registry) + 1,
                                  name |-> Meta.tablename,
                                  columns |-> Meta.columns,
                                  constraints |-> Meta.constraints],
                       !.attrs = @ \cup {"table"}],
          registry |-> Append(registry, Meta.tablename)]

\* Returns the exception raised (or ""), the Meta and the registry as the call
\* leaves them.  sqlalchemy.Table registers the table in the MetaData under its
\* name and refuses a name that is registered already.
populate_meta_sqlalchemy_table_if_required(Meta, registry) ==
    IF "table" \in Meta.attrs
    THEN [exc |-> "", Meta |-> Meta, registry |-> registry]
    ELSE IF "tablename" \notin Meta.attrs \/ "columns" \notin Meta.attrs
    THEN [exc |-> "AttributeError", Meta |-> Meta, registry |-> registry]
    ELSE IF \E i \in 1..Len(registry) : registry[i] = Meta.tablename
    THEN [exc |-> "InvalidRequestError", Meta |-> Meta, registry |-> registry]
    ELSE [exc |-> "",
          Meta |-> [Meta EXCEPT
                       !.table = [id |-> Len(registry) + 1,
                                  name |-> Meta.tablename,
                                  columns |-> Meta.columns,
                                  constraints |-> Meta.constraints],
                       !.attrs = @ \cup {"table"}],
          registry |-> Append(registry, Meta.tablename)]

(***************************************************************************)
(* Many-to-many: the through model gets a ForeignKey field and a foreign   *)
(* key column for each side of the relation.                               *)
(***************************************************************************)
\* AliasMixin.get_column_alias(field_name): the alias of the field of that name
\* (the name itself when the model has no such field).
get_column_alias(Meta, field_name) ==
    LET hits == SelectSeq(Meta.model_fields, LAMBDA f : f.name = field_name)
    IN  IF Len(hits) = 0 THEN field_name ELSE get_alias(hits[1])

\* ormar.ForeignKey(model, real_name=model.get_name(), ondelete="CASCADE")
ThroughForeignKey(model) ==
    [BaseField EXCEPT !.name = get_name(model), !.kind = "fk", !.to = model,
                      !.column_type = "Integer", !.nullable = TRUE]

\* model_fields[field.name] = field on a dict kept in insertion order.
SetField(model_fields, field) ==
    IF \E i \in 1..Len(model_fields) : model_fields[i].name = field.name
    THEN [i \in 1..Len(model_fields) |->
             IF model_fields[i].name = field.name THEN field ELSE model_fields[i]]
    ELSE Append(model_fields, field)

\* sqlalchemy's Table.append_column: a column of a name the table has replaces
\* that column, another one is added at the end.
append_column(table, column) ==
    IF \E i \in 1..Len(table.columns) : table.columns[i].name = column.name
    THEN [table EXCEPT !.columns =
             [i \in 1..Len(table.columns) |->
                 IF table.columns[i].name = column.name
                 THEN column ELSE table.columns[i]]]
    ELSE [table EXCEPT !.columns = Append(@, column)]

\* A variant that adds the column to Meta.columns and not to the table.
create_and_append_m2m_fk_list_only(model, Model, Through) ==
    IF {"pkname", "columns", "tablename"} \ Model.attrs # {}
    THEN [exc |-> "AttributeError", Meta |-> Through]
    ELSE
    LET pk_alias == get_column_alias(Model, Model.pkname)
        found == SelectSeq(Model.columns, LAMBDA col : col.name = pk_alias)
        column == [name |-> get_name(model),
                   type |-> found[1].type,
                   constraints |-> <<[name |-> Model.tablename \o "." \o pk_alias,
                                      ondelete |-> "CASCADE",
                                      onupdate |-> "CASCADE"]>>,
                   primary_key |-> FALSE, nullable |-> TRUE, index |-> FALSE,
                   unique |-> FALSE, default |-> NoneV,
                   server_default |-> NoneV]
    IN  IF Len(found) = 0
        THEN [exc |-> ModelDefinitionError, Meta |-> Through]
        ELSE IF "columns" \notin Through.attrs
        THEN [exc |-> "AttributeError", Meta |-> Through]
        ELSE [exc |-> "", Meta |-> [Through EXCEPT !.columns = Append(@, column)]]

\* Returns the exception raised (or "") and the through model's Meta as the
\* call leaves it.  Model is the Meta of model, Through the through model's.
create_and_append_m2m_fk(model, Model, Through) ==
    IF {"pkname", "columns", "tablename"} \ Model.attrs # {}
    THEN [exc |-> "AttributeError", Meta |-> Through]
    ELSE
    LET pk_alias == get_column_alias(Model, Model.pkname)
        found == SelectSeq(Model.columns, LAMBDA col : col.name = pk_alias)
        column == [name |-> get_name(model),
                   type |-> found[1].type,
                   constraints |-> <<[name |-> Model.tablename \o "." \o pk_alias,
                                      ondelete |-> "CASCADE",
                                      onupdate |-> "CASCADE"]>>,
                   primary_key |-> FALSE, nullable |-> TRUE, index |-> FALSE,
                   unique |-> FALSE, default |-> NoneV,
                   server_default |-> NoneV]
    IN  IF Len(found) = 0
        THEN [exc |-> ModelDefinitionError, Meta |-> Through]
        ELSE IF "columns" \notin Through.attrs
        THEN [exc |-> "AttributeError", Meta |-> Through]
        ELSE IF "table" \notin Through.attrs
        THEN [exc |-> "AttributeError",
              Meta |-> [Through EXCEPT !.columns = Append(@, column)]]
        ELSE [exc |-> "",
              Meta |-> [Through EXCEPT
                           !.columns = Append(@, column),
                           !.table = append_column(@, column)]]

\* Returns the exception raised (or ""), the through model's Meta as the call
\* leaves it, and the calls of create_and_append_m2m_fk it made.  The two
\* create_pydantic_field calls at its end touch the pydantic fields only.
adjust_through_many_to_many_model(model, child, model_field, metas) ==
    LET Through == metas[model_field.through]
        fielded == [Through EXCEPT !.model_fields =
                       SetField(SetField(@, ThroughForeignKey(model)),
                                ThroughForeignKey(child))]
        first == create_and_append_m2m_fk(model, metas[model], fielded)
        second == create_and_append_m2m_fk(child, metas[child], first.Meta)
    IN  IF first.exc # ""
        THEN [exc |-> first.exc, Meta |-> first.Meta,
              calls |-> <<[model |-> model, exc |-> first.exc]>>]
        ELSE [exc |-> second.exc, Meta |-> second.Meta,
              calls |-> <<[model |-> model, exc |-> ""],
                          [model |-> child, exc |-> second.exc]>>]

(***************************************************************************)
(* Definition-time calls.  Each records in last what was called, the Meta  *)
(* and the registry it found, and what it raised or returned.              *)
(***************************************************************************)
NoCall ==
    [op |-> "none", entity |-> "", exc |-> "", before |-> UndeclaredMeta,
     registry |-> <<>>, pkname |-> None, columns |-> <<>>, warnings |-> <<>>]

NoCalls == [model \in Models |-> [returned |-> 0, raised |-> 0]]

\* The number of create_and_append_m2m_fk calls counted in counts.
Calls(counts) ==
    LET RECURSIVE Sum(_)
        Sum(models) ==
            IF models = {} THEN 0
            ELSE LET model == CHOOSE m \in models : TRUE
                 IN  counts[model].returned + counts[model].raised
                     + Sum(models \ {model})
    IN  Sum(Models)

\* counts with the calls of one adjust_through_many_to_many_model added.
Counted(counts, calls) ==
    [model \in Models |->
        [returned |-> counts[model].returned
                      + Len(SelectSeq(calls, LAMBDA c : c.model = model /\ c.exc = "")),
         raised |-> counts[model].raised
                    + Len(SelectSeq(calls, LAMBDA c : c.model = model /\ c.exc # ""))]]

\* sqlalchemy_columns_from_model_fields(model.Meta.model_fields, model)
Compile(model) ==
    LET got == sqlalchemy_columns_from_model_fields(meta[model].model_fields, model)
    IN  /\ meta' = [meta EXCEPT ![model].model_fields = got.model_fields]
        /\ last' = [op |-> "compile", entity |-> model, exc |-> got.exc,
                    before |-> meta[model], registry |-> metadata,
                    pkname |-> got.pkname, columns |-> got.columns,
                    warnings |-> got.warnings]
        /\ UNCHANGED <<metadata, m2m_calls, new_kwargs, saved>>

\* populate_meta_tablename_columns_and_pk(name, model)
Populate(model) ==
    LET got == populate_meta_tablename_columns_and_pk(model, meta[model])
    IN  /\ meta' = [meta EXCEPT ![model] = got.Meta]
        /\ last' = [op |-> "populate", entity |-> model, exc |-> got.exc,
                    before |-> meta[model], registry |-> metadata,
                    pkname |-> got.Meta.pkname, columns |-> got.Meta.columns,
                    warnings |-> got.warnings]
        /\ UNCHANGED <<metadata, m2m_calls, new_kwargs, saved>>

\* populate_meta_sqlalchemy_table_if_required(model.Meta)
Assemble(model) ==
    LET got == populate_meta_sqlalchemy_table_if_required(meta[model], metadata)
    IN  /\ meta' = [meta EXCEPT ![model] = got.Meta]
        /\ metadata' = got.registry
        /\ last' = [op |-> "assemble", entity |-> model, exc |-> got.exc,
                    before |-> meta[model], registry |-> metadata,
                    pkname |-> got.Meta.pkname, columns |-> got.Meta.columns,
                    warnings |-> <<>>]
        /\ UNCHANGED <<m2m_calls, new_kwargs, saved>>

(***************************************************************************)
(* The field declarations a model class can carry.  Relation fields        *)
(* (ForeignKey, ManyToMany) are built with primary_key and pydantic_only   *)
(* False; the field at position i of the class body is named f<i>.         *)
(***************************************************************************)
FieldName(i) == "f" \o ToString(i)

PlainVariants ==
    {[BaseField EXCEPT !.primary_key = pk, !.pydantic_only = po, !.alias = al] :
        pk \in BOOLEAN, po \in BOOLEAN, al \in {"", "col"}}

RelationShapes ==
    {[kind |-> "fk", virtual |-> FALSE, to |-> "Book", related_name |-> None],
     [kind |-> "fk", virtual |-> FALSE, to |-> "Book", related_name |-> "writers"],
     [kind |-> "fk", virtual |-> FALSE, to |-> "Publisher", related_name |-> None],
     [kind |-> "fk", virtual |-> TRUE, to |-> "Review", related_name |-> None],
     [kind |-> "m2m", virtual |-> FALSE, to |-> "Book", related_name |-> None]}

RelationVariants ==
    {[BaseField EXCEPT !.kind = sh.kind, !.virtual = sh.virtual, !.to = sh.to,
                       !.related_name = sh.related_name,
                       !.column_type = "Integer", !.nullable = TRUE] :
        sh \in RelationShapes}

FieldVariants == PlainVariants \cup RelationVariants

\* The ordered field declarations of a class body of n fields.
Declarations(n) ==
    {[i \in 1..n |-> [variants[i] EXCEPT !.name = FieldName(i)]] :
        variants \in [1..n -> FieldVariants]}

FieldSets == UNION {Declarations(n) : n \in 0..MaxFields}

\* The class under definition in Spec.
Defined == "Author"

Init ==
    /\ \E model_fields \in FieldSets, explicit \in BOOLEAN :
          meta = [model \in Models |->
                    IF model = Defined
                    THEN [UndeclaredMeta EXCEPT
                             !.model_fields = model_fields,
                             !.tablename = IF explicit THEN "writers" ELSE "",
                             !.attrs = IF explicit THEN {"tablename"} ELSE {}]
                    ELSE UndeclaredMeta]
    /\ metadata = <<>>
    /\ last = NoCall
    /\ m2m_calls = NoCalls
    /\ new_kwargs = <<>>
    /\ saved = [op |-> "none", arg |-> <<>>, exc |-> ""]

Next ==
    \/ Compile(Defined)
    \/ Populate(Defined)
    \/ Assemble(Defined)

Spec == Init /\ [][Next]_vars

(***************************************************************************)
(* SpecM2M: Author declares a many-to-many relation to Book through        *)
(* AuthorBook, a through model without fields of its own.  The three are   *)
(* compiled and assembled in any order, and the relation is registered on  *)
(* the through model from either side.                                     *)
(***************************************************************************)
MaxAdjust == 2

ThroughModel == "AuthorBook"

\* The relation field as model carries it: declared on Author, and its virtual
\* reverse on Book.
M2MField(model) ==
    [BaseField EXCEPT !.name = IF model = "Author" THEN "books" ELSE "authors",
                      !.kind = "m2m", !.virtual = (model # "Author"),
                      !.to = IF model = "Author" THEN "Book" ELSE "Author",
                      !.through = ThroughModel,
                      !.column_type = "Integer", !.nullable = TRUE]

\* adjust_through_many_to_many_model(model, child, model_field)
Adjust(model, child) ==
    LET got == adjust_through_many_to_many_model(model, child, M2MField(model), meta)
    IN  /\ Calls(m2m_calls) < 2 * MaxAdjust
        /\ meta' = [meta EXCEPT ![ThroughModel] = got.Meta]
        /\ m2m_calls' = Counted(m2m_calls, got.calls)
        /\ last' = [op |-> "adjust", entity |-> ThroughModel, exc |-> got.exc,
                    before |-> meta[ThroughModel], registry |-> metadata,
                    pkname |-> got.Meta.pkname, columns |-> got.Meta.columns,
                    warnings |-> <<>>]
        /\ UNCHANGED <<metadata, new_kwargs, saved>>

\* The primary key field of a side, stored under alias al with type ty.
PkField(al, ty) ==
    [BaseField EXCEPT !.name = "id", !.primary_key = TRUE, !.alias = al,
                      !.column_type = ty, !.autoincrement = (ty = "Integer")]

InitM2M ==
    /\ \E apk \in {PkField(al, "Integer") : al \in {"", "pk"}},
          bpk \in {PkField("", "String")} :
          meta = [model \in Models |->
                    [UndeclaredMeta EXCEPT !.model_fields =
                        CASE model = "Author" ->
                               <<[BaseField EXCEPT !.name = "name"], apk,
                                 M2MField("Author")>>
                          [] model = "Book" -> <<bpk>>
                          [] OTHER -> <<>>]]
    /\ metadata = <<>>
    /\ last = NoCall
    /\ m2m_calls = NoCalls
    /\ new_kwargs = <<>>
    /\ saved = [op |-> "none", arg |-> <<>>, exc |-> ""]

NextM2M ==
    \/ \E model \in Models : Populate(model)
    \/ \E model \in Models : Assemble(model)
    \/ Adjust("Author", "Book")
    \/ Adjust("Book", "Author")

SpecM2M == InitM2M /\ [][NextM2M]_vars

(***************************************************************************)
(* Save preparation (SavePrepareMixin).  A dict is a function from its     *)
(* keys to their values; the methods change the dict they are given, so    *)
(* each returns the exception raised (or "") and that dict as it is left.  *)
(***************************************************************************)
\* del d[key] and d.pop(key, None)
Without(d, key) == [k \in (DOMAIN d) \ {key} |-> d[k]]

\* d[key] = value
With(d, key, value) ==
    [k \in (DOMAIN d) \cup {key} |-> IF k = key THEN value ELSE d[k]]

\* d.get(key, None)
Get(d, key) == IF key \in DOMAIN d THEN d[key] ELSE NoneV

\* Meta.model_fields[name]
FieldOf(Meta, name) ==
    LET hits == SelectSeq(Meta.model_fields, LAMBDA f : f.name = name)
    IN  hits[1]

\* A variant that strips the key of an autoincrement primary key only.
remove_pk_from_kwargs_autoincrement_only(Meta, kwargs) ==
    LET pkname == Meta.pkname
        pk == FieldOf(Meta, pkname)
    IN  IF /\ pkname \in DOMAIN kwargs
           /\ kwargs[pkname] = NoneV
           /\ pk.autoincrement
        THEN Without(kwargs, pkname)
        ELSE kwargs

remove_pk_from_kwargs(Meta, kwargs) ==
    LET pkname == Meta.pkname
        pk == FieldOf(Meta, pkname)
    IN  IF /\ pkname \in DOMAIN kwargs
           /\ kwargs[pkname] = NoneV
           /\ (pk.nullable \/ pk.autoincrement)
        THEN Without(kwargs, pkname)
        ELSE kwargs

\* RelationMixin.extract_related_names(): the names of the fields that are
\* owning foreign keys, in declaration order.
extract_related_names(Meta) ==
    LET owning == SelectSeq(Meta.model_fields,
                            LAMBDA f : f.kind # "plain" /\ is_valid_uni_relation(f))
    IN  [i \in 1..Len(owning) |-> owning[i].name]

\* A variant of the loop body that puts the key of the first target where the
\* list of the keys of all targets is due.
substitute_one_first_target(Meta, metas, model_dict, field) ==
    LET field_value == Get(model_dict, field)
        target_pkname == metas[FieldOf(Meta, field).to].pkname
    IN  IF field_value = NoneV
        THEN [exc |-> "", dict |-> model_dict]
        ELSE IF field_value.t = "model"
        THEN IF ~Truthy(field_value.e[1])
             THEN [exc |-> ModelPersistenceError, dict |-> model_dict]
             ELSE [exc |-> "", dict |-> With(model_dict, field, field_value.e[1])]
        ELSE IF Truthy(field_value)
        THEN IF field_value.t = "list"
             THEN IF \E i \in 1..Len(field_value.e) : field_value.e[i].t # "dict"
                  THEN [exc |-> "AttributeError", dict |-> model_dict]
                  ELSE [exc |-> "",
                        dict |-> With(model_dict, field,
                                      DictGet(field_value.e[1], target_pkname))]
             ELSE IF field_value.t # "dict"
                  THEN [exc |-> "AttributeError", dict |-> model_dict]
                  ELSE [exc |-> "",
                        dict |-> With(model_dict, field,
                                      DictGet(field_value, target_pkname))]
        ELSE [exc |-> "", dict |-> Without(model_dict, field)]

\* The body of the loop for one related name.  value.get on a value that is
\* neither a dict nor a list of dicts raises AttributeError.
substitute_one(Meta, metas, model_dict, field) ==
    LET field_value == Get(model_dict, field)
        target_pkname == metas[FieldOf(Meta, field).to].pkname
    IN  IF field_value = NoneV
        THEN [exc |-> "", dict |-> model_dict]
        ELSE IF field_value.t = "model"
        THEN IF ~Truthy(field_value.e[1])
             THEN [exc |-> ModelPersistenceError, dict |-> model_dict]
             ELSE [exc |-> "", dict |-> With(model_dict, field, field_value.e[1])]
        ELSE IF Truthy(field_value)
        THEN IF field_value.t = "list"
             THEN IF \E i \in 1..Len(field_value.e) : field_value.e[i].t # "dict"
                  THEN [exc |-> "AttributeError", dict |-> model_dict]
                  ELSE [exc |-> "",
                        dict |-> With(model_dict, field,
                                      ListV([i \in 1..Len(field_value.e) |->
                                             DictGet(field_value.e[i], target_pkname)]))]
             ELSE IF field_value.t # "dict"
                  THEN [exc |-> "AttributeError", dict |-> model_dict]
                  ELSE [exc |-> "",
                        dict |-> With(model_dict, field,
                                      DictGet(field_value, target_pkname))]
        ELSE [exc |-> "", dict |-> Without(model_dict, field)]

\* The loop over the related names, from the i-th on.
RECURSIVE substitute_loop(_, _, _, _, _)
substitute_loop(Meta, metas, model_dict, names, i) ==
    IF i > Len(names)
    THEN [exc |-> "", dict |-> model_dict]
    ELSE LET one == substitute_one(Meta, metas, model_dict, names[i])
         IN  IF one.exc # ""
             THEN one
             ELSE substitute_loop(Meta, metas, one.dict, names, i + 1)

substitute_models_with_pks(Meta, metas, model_dict) ==
    substitute_loop(Meta, metas, model_dict, extract_related_names(Meta), 1)

\* The loop over model_fields.items(), from the i-th field on.
RECURSIVE populate_loop(_, _, _)
populate_loop(Meta, kwargs, i) ==
    IF i > Len(Meta.model_fields)
    THEN kwargs
    ELSE LET field == Meta.model_fields[i]
             filled == IF /\ field.name \notin DOMAIN kwargs
                          /\ has_default(field, FALSE)
                          /\ ~field.pydantic_only
                       THEN With(kwargs, field.name, get_default(field, FALSE))
                       ELSE kwargs
             cleared == IF /\ field.server_default # NoneV
                           /\ ~Truthy(Get(filled, field.name))
                        THEN Without(filled, field.name)
                        ELSE filled
         IN  populate_loop(Meta, cleared, i + 1)

populate_default_values(Meta, kwargs) == populate_loop(Meta, kwargs, 1)

\* AliasMixin.translate_columns_to_aliases: each key that names a field moves
\* to the field's alias, field by field.
RECURSIVE translate_loop(_, _, _)
translate_loop(Meta, kwargs, i) ==
    IF i > Len(Meta.model_fields)
    THEN kwargs
    ELSE LET field == Meta.model_fields[i]
         IN  translate_loop(
                 Meta,
                 IF field.name \in DOMAIN kwargs
                 THEN With(Without(kwargs, field.name), get_alias(field),
                           kwargs[field.name])
                 ELSE kwargs,
                 i + 1)

translate_columns_to_aliases(Meta, kwargs) == translate_loop(Meta, kwargs, 1)

prepare_model_to_save(Meta, metas, kwargs) ==
    LET substituted ==
            substitute_models_with_pks(Meta, metas, remove_pk_from_kwargs(Meta, kwargs))
    IN  IF substituted.exc # ""
        THEN substituted
        ELSE [exc |-> "",
              dict |-> translate_columns_to_aliases(
                           Meta, populate_default_values(Meta, substituted.dict))]

(***************************************************************************)
(* SpecSave: a caller builds a payload for a Book and makes one call of    *)
(* save preparation, or of one of its stages, on it.  Book has the primary *)
(* key id, the owning foreign keys author and editor to Author, the        *)
(* many-to-many field tags, and the plain field status.                    *)
(***************************************************************************)
MaxListLen == 2

Saved == "Book"

NotSaved == [op |-> "none", arg |-> <<>>, exc |-> ""]

\* The call made on the caller's dict: op names it, result is what it did.
Called(op, result) ==
    /\ saved.op = "none"
    /\ new_kwargs' = result.dict
    /\ saved' = [op |-> op, arg |-> new_kwargs, exc |-> result.exc]
    /\ UNCHANGED <<meta, metadata, last, m2m_calls>>

PrepareModelToSave ==
    Called("prepare_model_to_save",
           prepare_model_to_save(meta[Saved], meta, new_kwargs))

RemovePkFromKwargs ==
    Called("_remove_pk_from_kwargs",
           [exc |-> "", dict |-> remove_pk_from_kwargs(meta[Saved], new_kwargs)])

SubstituteModelsWithPks ==
    Called("substitute_models_with_pks",
           substitute_models_with_pks(meta[Saved], meta, new_kwargs))

PopulateDefaultValues ==
    Called("populate_default_values",
           [exc |-> "", dict |-> populate_default_values(meta[Saved], new_kwargs)])

TranslateColumnsToAliases ==
    Called("translate_columns_to_aliases",
           [exc |-> "", dict |-> translate_columns_to_aliases(meta[Saved], new_kwargs)])

\* A key left out of the payload.
Absent == [t |-> "absent", n |-> 0, s |-> "", e |-> <<>>]

\* The dict with the keys of choices that are not left out.
Payload(choices) ==
    [k \in {key \in DOMAIN choices : choices[key] # Absent} |-> choices[k]]

\* The nested dicts a relation key can hold: of a saved, of an unsaved row.
RelatedDicts ==
    {DictV(<<ItemV("id", IntV(7)), ItemV("name", StrV("x"))>>),
     DictV(<<ItemV("name", StrV("y"))>>)}

RelatedLists ==
    UNION {{ListV(items) : items \in [1..n -> RelatedDicts]} : n \in 0..MaxListLen}

AuthorValues ==
    {Absent, NoneV, IntV(0), IntV(5), DictV(<<>>),
     ModelV("Author", NoneV), ModelV("Author", IntV(0)), ModelV("Author", IntV(7))}
    \cup RelatedDicts \cup RelatedLists

EditorValues == {Absent, ModelV("Author", NoneV), ModelV("Author", IntV(9))}

TagsValues == {Absent, ListV(<<DictV(<<ItemV("id", IntV(3))>>)>>)}

IdValues == {Absent, NoneV, IntV(5)}

StatusValues == {Absent, NoneV, IntV(0), StrV("sent")}

StatusDefaults == {NoneV, IntV(0), StrV("new"), CallableV(StrV("made"))}

ServerDefaults == {NoneV, StrV("now()")}

\* The fields of Book.
BookFields(nullable, autoincrement, default, server_default, pydantic_only) ==
    <<[BaseField EXCEPT !.name = "id", !.primary_key = TRUE,
                        !.column_type = "Integer", !.nullable = nullable,
                        !.autoincrement = autoincrement],
      [BaseField EXCEPT !.name = "author", !.alias = "author_id", !.kind = "fk",
                        !.to = "Author", !.column_type = "Integer",
                        !.nullable = TRUE],
      [BaseField EXCEPT !.name = "editor", !.kind = "fk", !.to = "Author",
                        !.related_name = "edited", !.column_type = "Integer",
                        !.nullable = TRUE],
      [BaseField EXCEPT !.name = "tags", !.kind = "m2m", !.to = "Tag",
                        !.through = "BookTag", !.column_type = "Integer",
                        !.nullable = TRUE],
      [BaseField EXCEPT !.name = "status", !.alias = "state",
                        !.default = default, !.server_default = server_default,
                        !.pydantic_only = pydantic_only]>>

\* The Meta of a model class defined with model_fields: compiled and assembled.
DefinedMeta(name, model_fields) ==
    populate_meta_tablename_columns_and_pk(
        name, [UndeclaredMeta EXCEPT !.model_fields = model_fields]).Meta

InitSave ==
    /\ \E nullable \in BOOLEAN, autoincrement \in BOOLEAN,
          default \in StatusDefaults, server_default \in ServerDefaults,
          pydantic_only \in BOOLEAN :
          /\ ~(nullable /\ autoincrement)
          /\ meta = [model \in Models |->
                       CASE model = Saved ->
                              DefinedMeta(model,
                                          BookFields(nullable, autoincrement, default,
                                                     server_default, pydantic_only))
                         [] model = "Author" ->
                              DefinedMeta(model, <<PkField("", "Integer")>>)
                         [] OTHER -> UndeclaredMeta]
    /\ \E id \in IdValues, author \in AuthorValues, editor \in EditorValues,
          tags \in TagsValues, status \in StatusValues :
          new_kwargs = Payload([id |-> id, author |-> author, editor |-> editor,
                                tags |-> tags, status |-> status])
    /\ saved = NotSaved
    /\ metadata = <<>>
    /\ last = NoCall
    /\ m2m_calls = NoCalls

NextSave ==
    \/ PrepareModelToSave
    \/ RemovePkFromKwargs
    \/ SubstituteModelsWithPks
    \/ PopulateDefaultValues
    \/ TranslateColumnsToAliases

SpecSave == InitSave /\ [][NextSave]_vars

(***************************************************************************)
(* Properties of column compilation and table assembly, checked under Spec.*)
(***************************************************************************)
\* The positions of the primary-key-flagged fields.
PkFlagged(model_fields) ==
    {i \in 1..Len(model_fields) : model_fields[i].primary_key}

\* Exactly one field is primary-key-flagged, and it is persisted.
OnePersistedPk(model_fields) ==
    /\ Cardinality(PkFlagged(model_fields)) = 1
    /\ \A i \in PkFlagged(model_fields) : ~model_fields[i].pydantic_only

\* The call found a Meta without compiled columns: the fields are compiled.
FromFields == "columns" \notin last.before.attrs

\* C1 as stated: column compilation of a field set with exactly one
\* primary-key-flagged, persisted field succeeds and returns that field's name,
\* whatever the other fields are.
C1_AnyOtherFields ==
    (last.op = "compile" /\ OnePersistedPk(last.before.model_fields))
    => /\ last.exc = ""
       /\ \A i \in PkFlagged(last.before.model_fields) :
             last.pkname = last.before.model_fields[i].name

\* C1 amended: column compilation of a field set with exactly one
\* primary-key-flagged, persisted field whose relation fields pass the
\* related-name validation succeeds and returns that field's name, at whatever
\* position the field is declared.
C1_OnePkCompiles ==
    (/\ last.op = "compile"
     /\ OnePersistedPk(last.before.model_fields)
     /\ \A i, j \in 1..Len(last.before.model_fields) :
           LET a == last.before.model_fields[i]
               b == last.before.model_fields[j]
           IN  (i < j /\ a.kind # "plain" /\ b.kind # "plain" /\ a.to = b.to)
               => a.related_name # b.related_name)
    => /\ last.exc = ""
       /\ \A i \in PkFlagged(last.before.model_fields) :
             last.pkname = last.before.model_fields[i].name

\* C1 witness: three fields, the aliased primary key declared second between a
\* relation and a pydantic-only field, compiled to the primary key's name.
C1_Witness ==
    /\ last.op = "compile"
    /\ Len(last.before.model_fields) = 3
    /\ PkFlagged(last.before.model_fields) = {2}
    /\ last.before.model_fields[2].alias = "col"
    /\ last.before.model_fields[1].kind = "fk"
    /\ last.before.model_fields[3].pydantic_only
    /\ last.exc = ""
    /\ last.pkname = "f2"

\* C2 as stated: compiling an entity whose field set has zero or two or more
\* primary-key-flagged fields fails with ModelDefinitionError.
C2_ZeroOrManyPkFails ==
    (/\ last.op = "populate"
     /\ FromFields
     /\ Cardinality(PkFlagged(last.before.model_fields)) # 1)
    => last.exc = ModelDefinitionError

\* C2 amended: compiling an entity whose field set is not empty and has zero or
\* two or more primary-key-flagged fields fails with ModelDefinitionError and
\* sets neither pkname nor columns.
C2_NonEmptyZeroOrManyPkFails ==
    (/\ last.op = "populate"
     /\ FromFields
     /\ Len(last.before.model_fields) > 0
     /\ Cardinality(PkFlagged(last.before.model_fields)) # 1)
    => /\ last.exc = ModelDefinitionError
       /\ "pkname" \notin meta[last.entity].attrs
       /\ "columns" \notin meta[last.entity].attrs

\* C2 witness: an entity with two persisted primary-key-flagged fields was
\* compiled and the compilation failed.
C2_Witness ==
    /\ last.op = "populate"
    /\ FromFields
    /\ Cardinality(PkFlagged(last.before.model_fields)) = 2
    /\ \A i \in PkFlagged(last.before.model_fields) :
          ~last.before.model_fields[i].pydantic_only
    /\ last.exc = ModelDefinitionError

\* The columns of Meta that carry the primary key: named by the alias of the
\* field pkname names, and marked primary_key.
PkColumns(Meta) ==
    {c \in 1..Len(Meta.columns) :
        \E i \in 1..Len(Meta.model_fields) :
            /\ Meta.model_fields[i].name = Meta.pkname
            /\ Meta.columns[c].name = get_alias(Meta.model_fields[i])
            /\ Meta.columns[c].primary_key}

\* C3: whenever an entity is compiled, its primary key is a field that is not
\* pydantic-only and the column list holds exactly one primary-key column under
\* its alias; and compiling fields among which a primary-key-flagged field is
\* pydantic-only fails with ModelDefinitionError.
C3_PkIsStorageColumn ==
    /\ \A model \in Models :
          "columns" \in meta[model].attrs
          => /\ \E i \in 1..Len(meta[model].model_fields) :
                   /\ meta[model].model_fields[i].name = meta[model].pkname
                   /\ meta[model].model_fields[i].primary_key
                   /\ ~meta[model].model_fields[i].pydantic_only
             /\ Cardinality(PkColumns(meta[model])) = 1
    /\ (/\ last.op \in {"compile", "populate"}
        /\ FromFields
        /\ \E i \in PkFlagged(last.before.model_fields) :
              last.before.model_fields[i].pydantic_only)
       => last.exc = ModelDefinitionError

\* C3 witness: an entity whose primary key is stored under an alias was compiled.
C3_Witness ==
    /\ last.op = "populate"
    /\ FromFields
    /\ last.exc = ""
    /\ "columns" \in meta[last.entity].attrs
    /\ \E i \in 1..Len(meta[last.entity].model_fields) :
          /\ meta[last.entity].model_fields[i].name = meta[last.entity].pkname
          /\ meta[last.entity].model_fields[i].alias = "col"

\* The fields that the column rule keeps, in declaration order.
Stored(model_fields) ==
    SelectSeq(model_fields,
              LAMBDA f : ~f.pydantic_only /\ ~f.virtual /\ f.kind # "m2m")

\* C4: the columns a successful compile returns are, in declaration order, one
\* column for each field that is neither pydantic-only nor virtual nor
\* many-to-many, and no other column.
C4_ColumnsFollowFields ==
    (last.op = "compile" /\ last.exc = "")
    => LET stored == Stored(meta[last.entity].model_fields)
       IN  /\ Len(last.columns) = Len(stored)
           /\ \A i \in 1..Len(stored) :
                 last.columns[i] = get_column(stored[i], get_alias(stored[i]))

\* C4 witness: a compile that dropped a virtual field declared between two
\* stored fields.
C4_Witness ==
    /\ last.op = "compile"
    /\ last.exc = ""
    /\ Len(meta[last.entity].model_fields) = 3
    /\ meta[last.entity].model_fields[2].virtual
    /\ Len(last.columns) = 2
    /\ last.columns[1].name = "f1"
    /\ last.columns[2].name = "f3"

\* C7 as stated: a compilation that fails with ModelDefinitionError has set or
\* changed none of tablename, pkname, columns and table on the entity's Meta.
C7_FailedCompileLeavesMeta ==
    (last.op = "populate" /\ last.exc = ModelDefinitionError)
    => /\ meta[last.entity].attrs = last.before.attrs
       /\ meta[last.entity].tablename = last.before.tablename
       /\ meta[last.entity].pkname = last.before.pkname
       /\ meta[last.entity].columns = last.before.columns
       /\ meta[last.entity].table = last.before.table

\* The number of entries the registry holds for a table name.
Registered(name) ==
    Cardinality({i \in 1..Len(metadata) : metadata[i] = name})

\* C10: table assembly on a Meta that has a table ends without error, leaves
\* that table and the registry as they were, and every assembled entity has
\* exactly one registry entry for its table name.
C10_AssembleIdempotent ==
    /\ (last.op = "assemble" /\ "table" \in last.before.attrs)
       => /\ last.exc = ""
          /\ meta[last.entity].table = last.before.table
          /\ metadata = last.registry
    /\ \A model \in Models :
          "table" \in meta[model].attrs => Registered(meta[model].tablename) = 1

\* C10 witness: table assembly was called on an entity that had its table.
C10_Witness ==
    /\ last.op = "assemble"
    /\ "table" \in last.before.attrs
    /\ Registered(meta[last.entity].tablename) = 1

(***************************************************************************)
(* Properties of the many-to-many through model, checked under SpecM2M.    *)
(***************************************************************************)
\* The positions in columns of the foreign key columns.
FkColumns(columns) ==
    {c \in 1..Len(columns) : Len(columns[c].constraints) > 0}

\* The positions in columns of the columns that lead to model's primary key:
\* named after the model, typed as its primary key column, with a foreign key
\* to <tablename>.<pk alias>.
LeadingTo(columns, model) ==
    {c \in FkColumns(columns) :
        /\ columns[c].name = get_name(model)
        /\ columns[c].constraints[1].name
              = meta[model].tablename \o "."
                \o get_column_alias(meta[model], meta[model].pkname)
        /\ \E k \in 1..Len(meta[model].columns) :
              /\ meta[model].columns[k].primary_key
              /\ meta[model].columns[k].type = columns[c].type}

\* A column list with exactly two foreign key columns, one to each side.
OneFkPerSide(columns) ==
    /\ Cardinality(FkColumns(columns)) = 2
    /\ Cardinality(LeadingTo(columns, "Author")) = 1
    /\ Cardinality(LeadingTo(columns, "Book")) = 1

\* One through table, whose column list and table both have one foreign key
\* column per side.
OneJoinSchema ==
    /\ "table" \in meta[ThroughModel].attrs
    /\ Registered(meta[ThroughModel].tablename) = 1
    /\ OneFkPerSide(meta[ThroughModel].columns)
    /\ OneFkPerSide(meta[ThroughModel].table.columns)

\* C6 as stated: after any calls, none of which raised, that registered the
\* relation on the through model for both sides, there is one through table
\* with exactly two foreign key columns, one per side, in its column list and
\* in its table.
C6_AnyCallsTwoFkColumns ==
    (\A model \in {"Author", "Book"} :
        m2m_calls[model].returned >= 1 /\ m2m_calls[model].raised = 0)
    => OneJoinSchema

\* C6 amended: after calls that registered the relation on the through model
\* exactly once for each side, in either order, and none that raised, there is
\* one through table with exactly two foreign key columns, one per side, in its
\* column list and in its table.
C6_OncePerSideTwoFkColumns ==
    (\A model \in {"Author", "Book"} :
        m2m_calls[model] = [returned |-> 1, raised |-> 0])
    => OneJoinSchema

\* C6 witness: the relation was registered from Book's side, so that the column
\* to Book precedes the column to Author, once for each side.
C6_Witness ==
    /\ \A model \in {"Author", "Book"} :
          m2m_calls[model] = [returned |-> 1, raised |-> 0]
    /\ OneJoinSchema
    /\ \E a, b \in 1..Len(meta[ThroughModel].columns) :
          /\ b < a
          /\ meta[ThroughModel].columns[a].name = "author"
          /\ meta[ThroughModel].columns[b].name = "book"

(***************************************************************************)
(* Properties of save preparation, checked under SpecSave.                 *)
(***************************************************************************)
\* The payload holds, under an owning foreign key, a model instance whose
\* primary key is unset or falsy.
HoldsUnsaved(Meta, kwargs) ==
    \E i \in 1..Len(Meta.model_fields) :
        LET f == Meta.model_fields[i]
        IN  /\ f.kind = "fk"
            /\ ~f.virtual
            /\ f.name \in DOMAIN kwargs
            /\ kwargs[f.name].t = "model"
            /\ ~Truthy(kwargs[f.name].e[1])

\* C5 as stated: when prepare_model_to_save raises ModelPersistenceError for a
\* payload that holds an unsaved related instance, the caller's payload is as
\* it was before the call.
C5_FailedSaveLeavesPayload ==
    (/\ saved.op = "prepare_model_to_save"
     /\ HoldsUnsaved(meta[Saved], saved.arg)
     /\ saved.exc = ModelPersistenceError)
    => new_kwargs = saved.arg

\* What a default resolves to: a generator's result, a static value itself.
Resolved(default) == IF default.t = "callable" THEN default.e[1] ELSE default

C9_OnlyPersistenceError ==
    saved.op = "prepare_model_to_save"
    => /\ saved.exc \in {"", ModelPersistenceError}
       /\ saved.exc = ModelPersistenceError => HoldsUnsaved(meta[Saved], saved.arg)
       /\ ~HoldsUnsaved(meta[Saved], saved.arg) => saved.exc = ""

(***************************************************************************)
(* The empty field set.                                                    *)
(***************************************************************************)
\* The last call compiled the fields of a class declared without any.
CompiledEmpty ==
    /\ last.op \in {"compile", "populate"}
    /\ last.op = "populate" => FromFields
    /\ last.before.model_fields = <<>>

\* C11: compiling an empty field set adds the single field id, an integer,
\* primary-key, autoincrement field, succeeds, returns id as the primary-key
\* name and a column list holding exactly the id column; the warning is
\* logged and nothing is raised.
C11_EmptySetGetsId ==
    CompiledEmpty =>
        LET model_fields == meta[last.entity].model_fields
        IN  /\ last.exc = ""
            /\ Len(model_fields) = 1
            /\ model_fields[1].name = "id"
            /\ model_fields[1].kind = "plain"
            /\ model_fields[1].column_type = "Integer"
            /\ model_fields[1].primary_key
            /\ model_fields[1].autoincrement
            /\ is_auto_primary_key(model_fields[1])
            /\ last.pkname = "id"
            /\ Len(last.columns) = 1
            /\ last.columns[1] = get_column(model_fields[1], "id")
            /\ last.columns[1].name = "id"
            /\ last.columns[1].type = "Integer"
            /\ last.columns[1].primary_key
            /\ last.warnings = <<NoFieldsWarning>>

C11_Witness ==
    /\ last.op = "compile"
    /\ last.before.model_fields = <<>>
    /\ last.exc = ""
    /\ last.pkname = "id"
    /\ Len(last.columns) = 1
    /\ last.warnings # <<>>

(***************************************************************************)
(* The substitution stage.                                                 *)
(***************************************************************************)
\* The fields that are owning foreign keys: relations, not many-to-many, not
\* virtual.
OwningForeignKeys(Meta) ==
    {Meta.model_fields[i] : i \in {j \in 1..Len(Meta.model_fields) :
        /\ Meta.model_fields[j].kind # "plain"
        /\ is_valid_uni_relation(Meta.model_fields[j])}}

\* What the stage made of the key of the owning foreign key f: before is the
\* payload handed in, after the payload handed back.  removes_null says what
\* is expected of a key that held None.
SubstitutedKey(f, before, after, removes_null) ==
    LET pkname == meta[f.to].pkname
        gone == f.name \notin DOMAIN after
        IsNow(value) == f.name \in DOMAIN after /\ after[f.name] = value
    IN  IF f.name \notin DOMAIN before
        THEN gone
        ELSE LET value == before[f.name]
             IN  CASE value.t = "model" -> IsNow(value.e[1])
                   [] value.t = "dict" /\ Truthy(value) ->
                          IsNow(DictGet(value, pkname))
                   [] value.t = "list" /\ Truthy(value) ->
                          /\ f.name \in DOMAIN after
                          /\ after[f.name].t = "list"
                          /\ Len(after[f.name].e) = Len(value.e)
                          /\ \A i \in 1..Len(value.e) :
                                after[f.name].e[i] = DictGet(value.e[i], pkname)
                   [] value.t = "none" ->
                          IF removes_null THEN gone ELSE IsNow(NoneV)
                   [] value.t \notin {"model", "none"} /\ ~Truthy(value) -> gone
                   [] OTHER -> IsNow(value)

\* The keys that are not owning foreign keys are as they were.
OtherKeysKept(Meta, before, after) ==
    LET relation_keys == {f.name : f \in OwningForeignKeys(Meta)}
    IN  \A key \in (DOMAIN before \cup DOMAIN after) \ relation_keys :
            /\ key \in DOMAIN before
            /\ key \in DOMAIN after
            /\ after[key] = before[key]

\* The last call was substitute_models_with_pks and it returned.
Substituted == saved.op = "substitute_models_with_pks" /\ saved.exc = ""

\* C12 as stated: after the substitution stage completes without error, every
\* owning foreign key's key is absent or holds the target's primary key(s): an
\* instance is replaced by its primary key, a mapping by its extracted key, a
\* sequence of mappings by the sequence of their keys, and any other falsy
\* value, null included, removes the key; the other keys are unchanged.
C12_FalsyAndNullRemoved ==
    Substituted =>
        /\ \A f \in OwningForeignKeys(meta[Saved]) :
              SubstitutedKey(f, saved.arg, new_kwargs, TRUE)
        /\ OtherKeysKept(meta[Saved], saved.arg, new_kwargs)

\* C12 as amended: as above, but a key that holds null is left in the payload
\* with its null value; the falsy values that remove the key are the others
\* (0, the empty string, the empty sequence, the empty mapping).
C12_NullKeptOtherFalsyRemoved ==
    Substituted =>
        /\ \A f \in OwningForeignKeys(meta[Saved]) :
              SubstitutedKey(f, saved.arg, new_kwargs, FALSE)
        /\ OtherKeysKept(meta[Saved], saved.arg, new_kwargs)

C12_Witness ==
    /\ Substituted
    /\ "author" \in DOMAIN saved.arg
    /\ saved.arg["author"].t = "list"
    /\ Len(saved.arg["author"].e) = 2
    /\ new_kwargs["author"] = ListV(<<IntV(7), NoneV>>)
    /\ "editor" \in DOMAIN saved.arg
    /\ saved.arg["editor"].t = "model"
    /\ new_kwargs["editor"] = IntV(9)
    /\ "tags" \in DOMAIN new_kwargs
    /\ "status" \in DOMAIN new_kwargs

(***************************************************************************)
(* The strip-empty-auto-key stage.                                         *)
(***************************************************************************)
\* The primary key field of the saved model class.
PrimaryKeyField ==
    LET flagged == SelectSeq(meta[Saved].model_fields, LAMBDA f : f.primary_key)
    IN  flagged[1]

\* The payload holds the primary key's key with the value None, and the
\* primary key is nullable or autoincrement.
HoldsEmptyAutoKey(kwargs) ==
    /\ PrimaryKeyField.name \in DOMAIN kwargs
    /\ kwargs[PrimaryKeyField.name].t = "none"
    /\ (PrimaryKeyField.nullable \/ PrimaryKeyField.autoincrement)

\* C13: _remove_pk_from_kwargs removes the primary key's key exactly when the
\* key is present with the value None and the primary key is nullable or
\* autoincrement; in every other case the payload comes back unchanged, and
\* no key but the primary key's is removed, added or given another value.
C13_StripsEmptyAutoKeyOnly ==
    saved.op = "_remove_pk_from_kwargs" =>
        LET pkname == PrimaryKeyField.name
        IN  /\ saved.exc = ""
            /\ (pkname \in DOMAIN saved.arg /\ pkname \notin DOMAIN new_kwargs)
                   <=> HoldsEmptyAutoKey(saved.arg)
            /\ ~HoldsEmptyAutoKey(saved.arg) => new_kwargs = saved.arg
            /\ DOMAIN new_kwargs \ {pkname} = DOMAIN saved.arg \ {pkname}
            /\ \A key \in DOMAIN new_kwargs : new_kwargs[key] = saved.arg[key]

C13_Witness ==
    /\ saved.op = "_remove_pk_from_kwargs"
    /\ PrimaryKeyField.nullable
    /\ ~PrimaryKeyField.autoincrement
    /\ "id" \in DOMAIN saved.arg
    /\ saved.arg["id"] = NoneV
    /\ DOMAIN new_kwargs = {"author", "editor", "tags", "status"}
    /\ new_kwargs["author"] = NoneV

====
